---------------------------- MODULE Spec2Model ----------------------------
(***************************************************************************)
(* Model of src/gps.py: a simpy discrete-event simulation of vehicles that *)
(* follow a route, are debited a toll at every waypoint inside a toll      *)
(* zone, and stop early when they have been stationary at the end of the   *)
(* route.                                                                  *)
(*                                                                         *)
(* Abstractions, all stated here:                                          *)
(*  - a coordinate is a point on one meridian, named by its distance in    *)
(*    km from the origin, so geodesic(a, b) is |a - b| km;                 *)
(*  - a toll zone (a shapely polygon) is the set of coordinates it         *)
(*    contains;                                                            *)
(*  - money is counted in hundredths of a rupee, so that the rates of      *)
(*    lines 10-17 are integers (floating point rounding is not modelled);  *)
(*  - the wall clock read by get_time_slot is the variable hour, advanced  *)
(*    by the environment between two steps of the simulation;              *)
(*  - print statements change no state; the contingency message of line 67 *)
(*    is counted in signals, the other messages are dropped, and so is     *)
(*    check_speed_limit (lines 91-94), which only prints;                  *)
(*  - the payment vendor of an account is never read by the engine and is  *)
(*    left out;                                                            *)
(*  - a run is set up by the variables fleet, until and pool: how many     *)
(*    vehicles are built, the time bound of env.run and the routes the     *)
(*    vehicles may be given.  The program's own time bound, 100, is out    *)
(*    of reach of the short routes explored, so one specification runs     *)
(*    the same scheduler with a smaller bound.                             *)
(***************************************************************************)
EXTENDS Integers, Sequences, FiniteSets, TLC

(* ------------------------------ bounds --------------------------------- *)
\* main() builds 10 vehicles (line 168), 5 zones (line 165) and routes of
\* 5 to 15 waypoints (line 40); the model explores smaller instances.
\* The vehicles a run may build are Vehicle_0 and Vehicle_1; how many of
\* them main() builds is the variable fleet, fixed by the initial state.
VehicleIds == {0, 1}
NumZones == 2
MaxRouteLen == 4
\* how many times random.random() < 0.1 may come out true in one run
MaxCongestion == 1
\* the coordinates a waypoint is drawn from (km along the meridian)
Coords == {0, 12}
\* the wall-clock hours a run may see
Hours == {9, 10}
\* the longest route of a run with two vehicles, but for the routes of a
\* vehicle that never moves, which are as long as MaxRouteLen there too
FleetRouteLen == 2
\* the time bound of a run that is cut short
ShortUntil == 3
\* the longest distance (km) a toll is computed for
MaxDistance == 12

(* ----------------------------- constants ------------------------------- *)
TOLL_RATE_PER_KM == 410
FIXED_TOLL_FEE == 16400
DYNAMIC_PRICING_RATE == 164
CONGESTION_THRESHOLD == 10
PEAK_RATE == 246
OFF_PEAK_RATE == 82
INITIAL_BALANCE == 10000
STATIONARY_LIMIT == 5
UNTIL == 100

Vehicles == VehicleIds
\* the two env.process(...) calls made for a vehicle: line 61 and line 124
Registrations == {"ctor", "setup"}
Procs == Vehicles \X Registrations
Routes == UNION {[1 .. n -> Coords] : n \in 1 .. MaxRouteLen}
ZoneLists == [1 .. NumZones -> SUBSET Coords]
\* the zone lists of a run with two vehicles: any first zone, the other
\* zones cover every coordinate
FleetZoneLists ==
  {zl \in ZoneLists : \A z \in 2 .. NumZones : zl[z] = Coords}
\* the routes of a run with two vehicles
FleetRoutes ==
  {r \in Routes : Len(r) <= FleetRouteLen}
    \cup {[i \in 1 .. MaxRouteLen |-> c] : c \in Coords}

VARIABLES
  fleet,            \* the bound of the loop of line 168
  until,            \* the time bound passed to env.run (line 175)
  pool,             \* the routes a vehicle may be given in this run
  quote,            \* the arguments and results of direct calls of
                    \*   calculate_toll, see ComputeToll
  mainpc,           \* where main() is: "create", "setup", "run"
  created,          \* number of vehicles main() has built so far
  toll_zones,       \* the list returned by generate_toll_zones
  route,            \* Vehicle.route, <<>> until the vehicle is built
  start,            \* Vehicle.start
  position,         \* Vehicle.position
  stationary_time,  \* Vehicle.stationary_time
  account,          \* Vehicle.account: [balance, payments]
  pc,               \* per process: "none", "init", "sleep1", "sleep2",
                    \*              "completed", "halted"
  iter,             \* per process: index of the waypoint of its current
                    \*              loop iteration (0 before the first)
  queue,            \* simpy's event queue: <<time, process>>, in order
  now,              \* env.now
  hour,             \* datetime.now().hour
  congested,        \* number of congestion draws that came out true
  \* history variables, written but never read by the program's steps
  signals,          \* per vehicle: contingency messages printed
  debited,          \* per vehicle: amounts passed to deduct_toll, in order
  tick,             \* per vehicle: the simulated time of the last step
                    \*   that assigned its position, and the number of
                    \*   assignments and of debits made at that time
  posIdx,           \* per vehicle: route index of its current position
  endSince,         \* per vehicle: the simulated time since which its
                    \*   position has been equal to route[-1], else -1
  lastStep,         \* the last process step taken: who, what, when
  twinHour,         \* the hour read by a second run of the program with
                    \*   the same zones, routes, balances and congestion
                    \*   draws, during which no hour mark passes
  twinAccount       \* per vehicle: the ledger of that second run

\* what no step of a run changes
setting == <<fleet, until, pool, quote, twinHour>>

vars == <<setting, mainpc, created, toll_zones, route, start, position,
          stationary_time, account, pc, iter, queue, now, hour, congested,
          signals, debited, tick, posIdx, endSince, lastStep, twinAccount>>

(* --------------------------- pure functions ---------------------------- *)
Abs(x) == IF x < 0 THEN -x ELSE x

Last(s) == s[Len(s)]

RECURSIVE Sum(_)
Sum(s) == IF s = <<>> THEN 0 ELSE Head(s) + Sum(Tail(s))

get_time_slot(current_hour) ==
  IF (7 <= current_hour /\ current_hour <= 9)
       \/ (17 <= current_hour /\ current_hour <= 19)
  THEN "peak" ELSE "off_peak"

TIME_SLOT_RATE(slot) == IF slot = "peak" THEN PEAK_RATE ELSE OFF_PEAK_RATE

calculate_distance(a, b) == Abs(a - b)

\* calculate_toll as it would be with the congestion test the wrong way
calculate_toll_flipped(distance, current_hour) ==
  LET base == distance * TOLL_RATE_PER_KM + FIXED_TOLL_FEE
      slot == base + distance * TIME_SLOT_RATE(get_time_slot(current_hour))
  IN  IF distance < CONGESTION_THRESHOLD
      THEN slot + distance * DYNAMIC_PRICING_RATE
      ELSE slot

\* calculate_toll as it would be with the surcharge from the threshold on
calculate_toll_inclusive(distance, current_hour) ==
  LET base == distance * TOLL_RATE_PER_KM + FIXED_TOLL_FEE
      slot == base + distance * TIME_SLOT_RATE(get_time_slot(current_hour))
  IN  IF distance >= CONGESTION_THRESHOLD
      THEN slot + distance * DYNAMIC_PRICING_RATE
      ELSE slot

calculate_toll(distance, current_hour) ==
  LET base == distance * TOLL_RATE_PER_KM + FIXED_TOLL_FEE
      slot == base + distance * TIME_SLOT_RATE(get_time_slot(current_hour))
  IN  IF distance > CONGESTION_THRESHOLD
      THEN slot + distance * DYNAMIC_PRICING_RATE
      ELSE slot

\* the membership test as it would be if inverted
contains_inverted(toll_zone, point) == point \notin toll_zone

contains(toll_zone, point) == point \in toll_zone

\* deduct_toll as it would be if a debit were refused on overdraft
deduct_toll_refusing(acct, amount) ==
  IF acct.balance - amount < 0 THEN acct
  ELSE [balance |-> acct.balance - amount,
        payments |-> Append(acct.payments, amount)]

deduct_toll(acct, amount) ==
  [balance |-> acct.balance - amount,
   payments |-> Append(acct.payments, amount)]

\* the toll as it would be with the distance measured from the origin
ZoneToll_from_origin(st, pos, hr) ==
  calculate_toll(calculate_distance(0, pos), hr)

\* lines 86-87: the toll charged at pos to a vehicle that started at st
ZoneToll(st, pos, hr) == calculate_toll(calculate_distance(st, pos), hr)

\* The tolls check_toll_zone passes to deduct_toll, one per zone that
\* contains pos, in the order of the zone list.
RECURSIVE ZoneTolls(_, _, _, _)
ZoneTolls(zones, st, pos, hr) ==
  IF zones = <<>> THEN <<>>
  ELSE LET rest == ZoneTolls(Tail(zones), st, pos, hr)
       IN  IF contains(Head(zones), pos)
           THEN <<ZoneToll(st, pos, hr)>> \o rest
           ELSE rest

RECURSIVE DeductAll(_, _)
DeductAll(acct, tolls) ==
  IF tolls = <<>> THEN acct
  ELSE DeductAll(deduct_toll(acct, Head(tolls)), Tail(tolls))

check_toll_zone(acct, zones, st, pos, hr) ==
  DeductAll(acct, ZoneTolls(zones, st, pos, hr))

\* the stationary check as it would be if it counted every step
StationaryCheck_always(pos, rt, st) == st + 1

\* lines 78-81: the counter after the stationary check, which compares the
\* vehicle's shared position field (not the loop variable) with route[-1].
StationaryCheck(pos, rt, st) == IF pos = Last(rt) THEN st + 1 ELSE 0

\* the guard as it would be with a strict comparison
ContingencyGuard_strict(st) == st > STATIONARY_LIMIT

\* the guard as it would be with an equality test
ContingencyGuard_exact(st) == st = STATIONARY_LIMIT

\* line 66
ContingencyGuard(st) == st >= STATIONARY_LIMIT

(* ----------------------------- event queue ----------------------------- *)
\* simpy orders events by (time, priority, insertion): a timeout scheduled
\* for time t goes behind every event already queued for a time <= t.
RECURSIVE Schedule(_, _, _)
Schedule(q, t, p) ==
  IF q = <<>> THEN <<<<t, p>>>>
  ELSE IF Head(q)[1] <= t THEN <<Head(q)>> \o Schedule(Tail(q), t, p)
  ELSE <<<<t, p>>>> \o q

\* env.timeout as it would be with a delay of two time units
Timeout_double(t) == t + 2

\* lines 73 and 75: the time at which self.env.timeout(1), made at t, fires
Timeout(t) == t + 1

\* run() as it would be if every process were bound to the first vehicle
Owner_first(p) == 0

\* lines 61 and 124: the vehicle whose run() method process p executes
Owner(p) == p[1]

\* env.run as it would be if events at the time bound were still processed
InTime_inclusive(t, bound) == t <= bound

\* line 175: env.run(until=bound) processes an event of time t
InTime(t, bound) == t < bound

(* -------------------------------- Init --------------------------------- *)
NoStep == [proc |-> <<0, "none">>, kind |-> "none", time |-> 0, moves |-> 0,
           debits |-> 0]

NoQuote == [d1 |-> 0, d2 |-> 0, t1 |-> -1, t2 |-> -1]

\* Nothing is built yet.
InitVehicles ==
  /\ created = 0
  /\ route = [v \in Vehicles |-> <<>>]
  /\ start = [v \in Vehicles |-> 0]
  /\ position = [v \in Vehicles |-> 0]
  /\ stationary_time = [v \in Vehicles |-> 0]
  /\ account = [v \in Vehicles |->
                  [balance |-> INITIAL_BALANCE, payments |-> <<>>]]
  /\ twinAccount = account
  /\ pc = [p \in Procs |-> "none"]
  /\ iter = [p \in Procs |-> 0]
  /\ queue = <<>>
  /\ now = 0
  /\ congested = 0
  /\ signals = [v \in Vehicles |-> 0]
  /\ debited = [v \in Vehicles |-> <<>>]
  /\ tick = [v \in Vehicles |-> [time |-> 0, moves |-> 0, debits |-> 0]]
  /\ posIdx = [v \in Vehicles |-> 0]
  /\ endSince = [v \in Vehicles |-> -1]
  /\ lastStep = NoStep

\* main() has made the environment and the toll zones (lines 164-166).
InitInputs(zoneLists) ==
  /\ toll_zones \in zoneLists
  /\ hour \in Hours
  /\ twinHour = hour
  /\ quote = NoQuote
  /\ InitVehicles

\* main() with a single vehicle.
Init ==
  /\ mainpc = "create"
  /\ fleet = 1 /\ until = UNTIL /\ pool = Routes
  /\ InitInputs(ZoneLists)

\* main() with a single vehicle and a time bound the routes can reach.
InitBound ==
  /\ mainpc = "create"
  /\ fleet = 1 /\ until = ShortUntil /\ pool = Routes
  /\ InitInputs(ZoneLists)

\* main() with two vehicles, on short routes or not moving.
InitFleet ==
  /\ mainpc = "create"
  /\ fleet = 2 /\ until = UNTIL /\ pool = FleetRoutes
  /\ InitInputs(FleetZoneLists)

\* A caller that constructs one Vehicle itself and runs the environment.
InitDirect ==
  /\ mainpc = "construct"
  /\ fleet = 1 /\ until = UNTIL /\ pool = Routes \cup {<<>>}
  /\ InitInputs(ZoneLists)

\* A caller of calculate_toll alone: two distances, at some hour of the day.
InitToll ==
  /\ mainpc = "pricing"
  /\ fleet = 0 /\ until = UNTIL /\ pool = {}
  /\ toll_zones = [z \in 1 .. NumZones |-> {}]
  /\ hour \in 0 .. 23
  /\ twinHour = hour
  /\ quote \in [d1 : 0 .. MaxDistance, d2 : 0 .. MaxDistance,
                t1 : {-1}, t2 : {-1}]
  /\ InitVehicles

(* ------------------------------- main() -------------------------------- *)
\* Vehicle.__init__ (lines 52-62) for vehicle v, with route r starting at s.
NewVehicle(v, r, s) ==
  /\ route' = [route EXCEPT ![v] = r]
  /\ start' = [start EXCEPT ![v] = s]
  /\ position' = [position EXCEPT ![v] = s]
  /\ stationary_time' = [stationary_time EXCEPT ![v] = 0]
  /\ pc' = [pc EXCEPT ![<<v, "ctor">>] = "init"]
  /\ queue' = Append(queue, <<0, <<v, "ctor">>>>)
  /\ posIdx' = [posIdx EXCEPT ![v] = IF r = <<>> THEN 0 ELSE 1]
  /\ endSince' = [endSince EXCEPT ![v] =
                    IF r # <<>> /\ s = Last(r) THEN 0 ELSE -1]

\* lines 168-172 and Vehicle.__init__: one pass of the loop of main().
CreateVehicle ==
  /\ mainpc = "create"
  /\ created < fleet
  /\ \E r \in pool : NewVehicle(created, r, r[1])
  /\ created' = created + 1
  /\ mainpc' = IF created + 1 = fleet THEN "setup" ELSE "create"
  /\ UNCHANGED <<setting, toll_zones, account, twinAccount, iter, now, hour,
                 congested, signals, debited, tick, lastStep>>

\* Vehicle(env, id, start, end, account, toll_zones, route) called by a
\* caller other than main(), with any route, the empty one included, and
\* any start; the caller then runs the environment.
ConstructVehicle ==
  /\ mainpc = "construct"
  /\ \E r \in pool : \E s \in Coords : NewVehicle(created, r, s)
  /\ created' = created + 1
  /\ mainpc' = "run"
  /\ UNCHANGED <<setting, toll_zones, account, twinAccount, iter, now, hour,
                 congested, signals, debited, tick, lastStep>>

\* lines 122-124: the processes setup_environment registers, in order.
RECURSIVE setup_environment(_, _, _)
setup_environment(q, v, n) ==
  IF v >= n THEN q
  ELSE setup_environment(Append(q, <<0, <<v, "setup">>>>), v + 1, n)

\* line 174
SetupEnvironment ==
  /\ mainpc = "setup"
  /\ queue' = setup_environment(queue, 0, fleet)
  /\ pc' = [p \in Procs |->
              IF \E i \in 1 .. Len(queue') : queue'[i][2] = p
              THEN "init" ELSE pc[p]]
  /\ mainpc' = "run"
  /\ UNCHANGED <<setting, created, toll_zones, route, start, position,
                 stationary_time, account, twinAccount, iter, now, hour,
                 congested, signals, debited, tick, posIdx, endSince,
                 lastStep>>

(* ---------------------------- Vehicle.run ------------------------------ *)
\* The top of one pass of the loop of run() (lines 65-73), entered by
\* process p with the counter at st and i the index of the next waypoint.
\* It runs without suspension up to the yield of line 73.
LoopTop(p, st, i, kind) ==
  LET v == Owner(p)
      t == Head(queue)[1]
  IN
  /\ stationary_time' = [stationary_time EXCEPT ![v] = st]
  /\ IF i > Len(route[v])
     THEN \* the route is exhausted: run() returns
          /\ pc' = [pc EXCEPT ![p] = "completed"]
          /\ queue' = Tail(queue)
          /\ lastStep' = [proc |-> p, kind |-> kind, time |-> t,
                          moves |-> 0, debits |-> 0]
          /\ UNCHANGED <<position, account, twinAccount, iter, signals,
                         debited, tick, posIdx, endSince>>
     ELSE IF ContingencyGuard(st)
     THEN \* lines 66-68
          /\ pc' = [pc EXCEPT ![p] = "halted"]
          /\ signals' = [signals EXCEPT ![v] = @ + 1]
          /\ queue' = Tail(queue)
          /\ lastStep' = [proc |-> p, kind |-> kind, time |-> t,
                          moves |-> 0, debits |-> 0]
          /\ UNCHANGED <<position, account, twinAccount, iter, debited,
                         tick, posIdx, endSince>>
     ELSE \* lines 70-73
          LET pos == route[v][i]
              tolls == ZoneTolls(toll_zones, start[v], pos, hour)
              same == tick[v].moves > 0 /\ tick[v].time = t
          IN
          /\ position' = [position EXCEPT ![v] = pos]
          /\ account' = [account EXCEPT ![v] =
                  check_toll_zone(@, toll_zones, start[v], pos, hour)]
          /\ twinAccount' = [twinAccount EXCEPT ![v] =
                  check_toll_zone(@, toll_zones, start[v], pos, twinHour)]
          /\ debited' = [debited EXCEPT ![v] = @ \o tolls]
          /\ iter' = [iter EXCEPT ![p] = i]
          /\ pc' = [pc EXCEPT ![p] = "sleep1"]
          /\ queue' = Schedule(Tail(queue), Timeout(t), p)
          /\ lastStep' = [proc |-> p, kind |-> kind, time |-> t,
                          moves |-> 1, debits |-> Len(tolls)]
          /\ tick' = [tick EXCEPT ![v] =
                  [time |-> t,
                   moves |-> IF same THEN @.moves + 1 ELSE 1,
                   debits |-> IF same THEN @.debits + Len(tolls)
                              ELSE Len(tolls)]]
          /\ posIdx' = [posIdx EXCEPT ![v] = i]
          /\ endSince' = [endSince EXCEPT ![v] =
                  IF pos # Last(route[v]) THEN -1
                  ELSE IF @ >= 0 THEN @ ELSE t]
          /\ UNCHANGED signals

\* env.run(until) pops the next event while its time is below the bound.
Runnable(p) ==
  /\ mainpc = "run"
  /\ queue # <<>>
  /\ Head(queue)[2] = p
  /\ InTime(Head(queue)[1], until)

\* The Initialize event of a process: run() starts (line 65).
Start(p) ==
  /\ Runnable(p)
  /\ pc[p] = "init"
  /\ now' = Head(queue)[1]
  /\ LoopTop(p, stationary_time[Owner(p)], 1, "start")
  /\ UNCHANGED <<setting, mainpc, created, toll_zones, route, start, hour,
                 congested>>

\* The timeout of line 73 fires and random.random() < 0.1: line 75.
Congest(p) ==
  /\ Runnable(p)
  /\ pc[p] = "sleep1"
  /\ congested < MaxCongestion
  /\ congested' = congested + 1
  /\ now' = Head(queue)[1]
  /\ pc' = [pc EXCEPT ![p] = "sleep2"]
  /\ queue' = Schedule(Tail(queue), Timeout(Head(queue)[1]), p)
  /\ lastStep' = [proc |-> p, kind |-> "congest", time |-> Head(queue)[1],
                  moves |-> 0, debits |-> 0]
  /\ UNCHANGED <<setting, mainpc, created, toll_zones, route, start,
                 position, stationary_time, account, twinAccount, iter, hour,
                 signals, debited, tick, posIdx, endSince>>

\* The timeout of line 73 fires without congestion, or the timeout of
\* line 75 fires: lines 78-81, then the next pass of the loop.
Advance(p) ==
  /\ Runnable(p)
  /\ pc[p] \in {"sleep1", "sleep2"}
  /\ now' = Head(queue)[1]
  /\ LoopTop(p,
             StationaryCheck(position[Owner(p)], route[Owner(p)],
                             stationary_time[Owner(p)]),
             iter[p] + 1, "advance")
  /\ UNCHANGED <<setting, mainpc, created, toll_zones, route, start, hour,
                 congested>>

\* line 175: env.run returns when no event is left below the time bound;
\* the clock then stands at the bound and main() goes on to its report.
Finish ==
  /\ mainpc = "run"
  /\ IF queue = <<>> THEN TRUE ELSE ~InTime(Head(queue)[1], until)
  /\ mainpc' = "done"
  /\ now' = until
  /\ UNCHANGED <<setting, created, toll_zones, route, start, position,
                 stationary_time, account, twinAccount, pc, iter, queue,
                 hour, congested, signals, debited, tick, posIdx, endSince,
                 lastStep>>

\* The wall clock passes an hour mark.
WallClock ==
  /\ mainpc = "run"
  /\ hour + 1 \in Hours
  /\ hour' = hour + 1
  /\ UNCHANGED <<setting, mainpc, created, toll_zones, route, start,
                 position, stationary_time, account, twinAccount, pc, iter,
                 queue, now, congested, signals, debited, tick, posIdx,
                 endSince, lastStep>>

\* calculate_toll called for the two distances of quote, at the same hour.
ComputeToll ==
  /\ mainpc = "pricing"
  /\ quote.t1 = -1
  /\ quote' = [quote EXCEPT !.t1 = calculate_toll(quote.d1, hour),
                            !.t2 = calculate_toll(quote.d2, hour)]
  /\ UNCHANGED <<fleet, until, pool, twinHour, mainpc, created,
                 toll_zones, route, start, position, stationary_time,
                 account, twinAccount, pc, iter, queue, now, hour, congested,
                 signals, debited, tick, posIdx, endSince, lastStep>>

Next ==
  \/ CreateVehicle
  \/ SetupEnvironment
  \/ \E p \in Procs : Start(p)
  \/ \E p \in Procs : Congest(p)
  \/ \E p \in Procs : Advance(p)
  \/ WallClock
  \/ Finish

NextDirect ==
  \/ ConstructVehicle
  \/ \E p \in Procs : Start(p)
  \/ \E p \in Procs : Congest(p)
  \/ \E p \in Procs : Advance(p)
  \/ WallClock
  \/ Finish

NextToll == ComputeToll

Spec == Init /\ [][Next]_vars
SpecBound == InitBound /\ [][Next]_vars
SpecFleet == InitFleet /\ [][Next]_vars
SpecDirect == InitDirect /\ [][NextDirect]_vars
SpecToll == InitToll /\ [][NextToll]_vars

TypeOK ==
  /\ mainpc \in {"create", "setup", "construct", "pricing", "run", "done"}
  /\ now \in 0 .. UNTIL
  /\ \A v \in Vehicles : stationary_time[v] \in Nat

(* ------------------------------ properties ----------------------------- *)
Built(v) == route[v] # <<>>
Live(p) == pc[p] \in {"init", "sleep1", "sleep2"}
Terminal(p) == pc[p] \in {"completed", "halted"}
\* a step of a process of vehicle v is being taken
StepOf(v) == lastStep' # lastStep /\ lastStep'.proc[1] = v
\* the number of zones that contain a point
ZonesContaining(pt) ==
  Cardinality({z \in 1 .. NumZones : pt \in toll_zones[z]})
IsPrefix(s, t) == Len(s) <= Len(t) /\ SubSeq(t, 1, Len(s)) = s

\* C1: at every simulated time at most one process step (position
\* assignment and zone check) is executed on a vehicle, and a vehicle is
\* never driven by two registered run() processes at once.
C1_OneProcessPerVehicle ==
  \A v \in Vehicles :
    /\ tick[v].moves <= 1
    /\ Cardinality({r \in Registrations : Live(<<v, r>>)}) <= 1

\* C2: at a simulated time at which a vehicle is stepped to a waypoint, the
\* number of payments appended to its ledger at that time is exactly the
\* number of zones that contain the waypoint.
C2_OneDebitPerZonePerTick ==
  \A v \in Vehicles :
    tick[v].moves > 0 => tick[v].debits = ZonesContaining(position[v])

\* C3: the payments of a ledger are the amounts passed to deduct_toll, in
\* call order, its balance is the initial balance minus their sum (also
\* when that is negative), and payments only grows by appending.
C3_LedgerInv ==
  \A v \in Vehicles :
    /\ account[v].payments = debited[v]
    /\ account[v].balance = INITIAL_BALANCE - Sum(debited[v])
C3_LedgerGrows ==
  \A v \in Vehicles : IsPrefix(account[v].payments, account'[v].payments)
C3_LedgerConsistent == []C3_LedgerInv /\ [][C3_LedgerGrows]_vars
\* a ledger debited twice after it was already overdrawn
C3_Witness ==
  \E v \in Vehicles :
    /\ Len(account[v].payments) >= 3
    /\ INITIAL_BALANCE - account[v].payments[1] < 0
    /\ account[v].balance < 0

\* C4 (as claimed): whenever the counter of a vehicle reaches 5, the
\* process whose step raised it ends in the halted state.
C4_HaltWhenCounterReachesLimit ==
  [][\A v \in Vehicles :
       (stationary_time[v] < STATIONARY_LIMIT
          /\ stationary_time'[v] >= STATIONARY_LIMIT)
       => pc'[lastStep'.proc] = "halted"]_vars

\* C4 (amended): a process that begins a pass of its loop for a remaining
\* waypoint with the counter at 5 or more emits the contingency signal and
\* ends halted, without assigning the position or debiting; a process whose
\* route is exhausted ends completed without a signal, whatever the counter;
\* and a process halts in no other case.
C4_StepHalts(v) ==
  LET p == lastStep'.proc
      remains == iter[p] < Len(route[v])
  IN  /\ (stationary_time'[v] >= STATIONARY_LIMIT /\ remains)
           => /\ pc'[p] = "halted"
              /\ signals'[v] = signals[v] + 1
              /\ position'[v] = position[v]
              /\ account'[v] = account[v]
      /\ ~remains => (pc'[p] = "completed" /\ signals'[v] = signals[v])
      /\ pc'[p] = "halted"
           => (stationary_time'[v] >= STATIONARY_LIMIT /\ remains)
C4_HaltWhenWaypointRemains ==
  [][\A v \in Vehicles :
       (StepOf(v) /\ lastStep'.kind \in {"start", "advance"})
       => C4_StepHalts(v)]_vars
\* a process has halted, and the vehicle's other process completed with the
\* counter at 5 or more
C4_Witness ==
  \E v \in Vehicles : \E r, q \in Registrations :
    /\ pc[<<v, r>>] = "halted"
    /\ pc[<<v, q>>] = "completed"
    /\ stationary_time[v] >= STATIONARY_LIMIT

\* C5: once the contingency signal has been emitted for a vehicle, its
\* position is never assigned again and its ledger never changes again.
C5_NoStepAfterSignal ==
  [][\A v \in Vehicles :
       signals[v] > 0
       => /\ position'[v] = position[v]
          /\ tick'[v] = tick[v]
          /\ account'[v] = account[v]]_vars
\* after the signal of one process the vehicle's other process has taken a
\* step and completed
C5_Witness ==
  \E v \in Vehicles :
    /\ signals[v] = 1
    /\ lastStep.proc[1] = v
    /\ pc[lastStep.proc] = "completed"
    /\ \A r \in Registrations : Terminal(<<v, r>>)

\* C6: when the contingency signal is emitted for a vehicle, its position
\* has been equal to route[-1] without interruption for at least 5 ticks.
C6_HaltAfterFiveTicksAtEnd ==
  [][\A v \in Vehicles :
       signals'[v] > signals[v]
       => /\ endSince[v] >= 0
          /\ lastStep'.time - endSince[v] >= STATIONARY_LIMIT]_vars

\* C7: after the stationary check that follows a waypoint step of a
\* process, the counter is 0 if the waypoint that step visited differs from
\* route[-1], and one more than before otherwise.
C7_CounterFollowsVisitedWaypoint ==
  [][\A v \in Vehicles :
       (StepOf(v) /\ lastStep'.kind = "advance")
       => stationary_time'[v] =
            IF route[v][iter[lastStep'.proc]] # Last(route[v])
            THEN 0 ELSE stationary_time[v] + 1]_vars

\* C8: a vehicle whose every waypoint lies outside every toll zone has no
\* payment and its initial balance, in every reachable state.
OutsideAllZones(v) ==
  \A i \in 1 .. Len(route[v]) : \A z \in 1 .. NumZones :
    route[v][i] \notin toll_zones[z]
C8_NoDebitOutsideZones ==
  \A v \in Vehicles :
    (Built(v) /\ OutsideAllZones(v))
    => /\ account[v].payments = <<>>
       /\ account[v].balance = INITIAL_BALANCE
\* such a vehicle has run to the end while some zone is not empty
C8_Witness ==
  \E v \in Vehicles :
    /\ Built(v) /\ OutsideAllZones(v)
    /\ Len(route[v]) >= 2
    /\ \E z \in 1 .. NumZones : toll_zones[z] # {}
    /\ \A r \in Registrations : pc[<<v, r>>] = "completed"
    /\ account[v].payments = <<>>

\* C9: a ledger changes only in a step that has just assigned the
\* vehicle's position to the waypoint of the stepping process, and what is
\* appended is one payment per zone containing that position, each equal to
\* calculate_toll of the distance from the vehicle's start to that position.
C9_StepDebits(v) ==
  LET p == lastStep'.proc
      old == account[v].payments
      new == account'[v].payments
      toll == calculate_toll(calculate_distance(start[v], position'[v]), hour)
  IN  /\ StepOf(v)
      /\ lastStep'.moves = 1
      /\ pc'[p] = "sleep1"
      /\ position'[v] = route[v][iter'[p]]
      /\ tick'[v].time = lastStep'.time
      /\ IsPrefix(old, new)
      /\ Len(new) - Len(old) = ZonesContaining(position'[v])
      /\ \A i \in (Len(old) + 1) .. Len(new) : new[i] = toll
C9_DebitInAssigningStep ==
  [][\A v \in Vehicles : account'[v] # account[v] => C9_StepDebits(v)]_vars
\* a debit at a waypoint that repeats the previous waypoint and is not the
\* start: the cumulative distance is positive, the incremental one is 0
C9_Witness ==
  \E v \in Vehicles :
    /\ Built(v)
    /\ posIdx[v] >= 2
    /\ position[v] # start[v]
    /\ route[v][posIdx[v] - 1] = position[v]
    /\ lastStep.proc[1] = v
    /\ lastStep.debits > 0
    /\ Last(account[v].payments) > FIXED_TOLL_FEE

\* C10: the route index of a vehicle's current position never decreases.
C10_RouteIndexNeverDecreases ==
  [][\A v \in Vehicles : posIdx'[v] >= posIdx[v]]_vars

\* C11: no position assignment, counter change, debit or process step is
\* made at a simulated time at or beyond the time bound; env.run returns
\* only when every registered process is terminal or the next event lies at
\* or beyond the bound; and after it has returned the state of the vehicles
\* and of their processes stays as it was.
Registered(p) == pc[p] # "none"
C11_StepInTime ==
  (position' # position \/ stationary_time' # stationary_time
     \/ account' # account \/ lastStep' # lastStep \/ pc' # pc)
  => (mainpc # "done" /\ (lastStep' # lastStep => lastStep'.time < until))
C11_ReturnsWhenDue ==
  (mainpc = "run" /\ mainpc' = "done")
  => /\ now' = until
     /\ \/ \A p \in Procs : Registered(p) => Terminal(p)
        \/ (queue # <<>> /\ Head(queue)[1] >= until)
C11_RunUntilBound == [][C11_StepInTime /\ C11_ReturnsWhenDue]_vars
\* the run was cut at the bound: a process is left unfinished, its vehicle
\* short of the end of its route and already debited
C11_Witness ==
  \E v \in Vehicles :
    /\ mainpc = "done"
    /\ now = until
    /\ \E r \in Registrations : Live(<<v, r>>)
    /\ posIdx[v] < Len(route[v])
    /\ account[v].payments # <<>>

\* C12: a step of a process of one vehicle leaves the position, counter,
\* ledger, signals and process states of every other vehicle unchanged.
C12_VehicleIsolation ==
  [][\A v, w \in Vehicles :
       (StepOf(v) /\ w # v)
       => /\ position'[w] = position[w]
          /\ stationary_time'[w] = stationary_time[w]
          /\ account'[w] = account[w]
          /\ signals'[w] = signals[w]
          /\ \A r \in Registrations :
               pc'[<<w, r>>] = pc[<<w, r>>] /\ iter'[<<w, r>>] = iter[<<w, r>>]]_vars
\* both vehicles have been debited, one has moved and the other has halted
C12_Witness ==
  \E v, w \in Vehicles :
    /\ v # w
    /\ signals[v] > 0
    /\ account[v].payments # <<>>
    /\ account[w].payments # <<>>
    /\ position[w] # start[w]

\* C13: a second run of the program with the same zones, routes, initial
\* balances and congestion draws ends with the same ledgers (its processes
\* end in the same states by construction).
C13_SameLedgersAsTwin ==
  mainpc = "done" => \A v \in Vehicles : account[v] = twinAccount[v]

\* C14: for two distances d1 <= d2 priced at the same hour,
\* calculate_toll(d1) <= calculate_toll(d2).
Quoted == mainpc = "pricing" /\ quote.t1 >= 0
C14_TollMonotone ==
  (Quoted /\ quote.d1 <= quote.d2) => quote.t1 <= quote.t2
\* two distances on either side of the congestion threshold
C14_Witness ==
  /\ Quoted
  /\ quote.d1 = CONGESTION_THRESHOLD
  /\ quote.d2 = CONGESTION_THRESHOLD + 1
  /\ quote.t1 < quote.t2

\* C15: the toll is the base charge rate*d + fee, which is not negative,
\* plus d times the peak or the off-peak rate, plus d times the dynamic
\* rate exactly when d exceeds the congestion threshold.
C15_TollAdditive ==
  Quoted =>
    LET d == quote.d1
        base == TOLL_RATE_PER_KM * d + FIXED_TOLL_FEE
        dyn == IF d > CONGESTION_THRESHOLD
               THEN d * DYNAMIC_PRICING_RATE ELSE 0
    IN  /\ base >= 0
        /\ quote.t1 >= base
        /\ quote.t1 - base - dyn \in {d * PEAK_RATE, d * OFF_PEAK_RATE}
\* a toll at the threshold itself, at a peak hour, and one beyond it
C15_Witness ==
  /\ Quoted
  /\ quote.d1 = CONGESTION_THRESHOLD
  /\ quote.d2 > CONGESTION_THRESHOLD
  /\ hour = 8
  /\ quote.t1 = FIXED_TOLL_FEE
                  + CONGESTION_THRESHOLD * (TOLL_RATE_PER_KM + PEAK_RATE)

\* C16: a vehicle constructed with an empty route has no process
\* registered (its construction fails).
C16_EmptyRouteRejected ==
  \A v \in Vehicles :
    (v < created /\ route[v] = <<>>)
    => \A r \in Registrations : ~Registered(<<v, r>>)

\* C17: the stationary counter of a vehicle is always in 0 .. 5.
C17_CounterAtMostLimit ==
  \A v \in Vehicles : stationary_time[v] \in 0 .. STATIONARY_LIMIT

\* C18: a process of a vehicle with a route of n waypoints takes every
\* step, its last one included, at a simulated time of at most 2n, which is
\* below the time bound, and env.run never returns with an unfinished
\* process.
C18_TerminatesBeforeBound ==
  \A p \in Procs :
    Registered(p) =>
      LET n == Len(route[p[1]]) IN
      /\ 2 * n < until
      /\ \A i \in 1 .. Len(queue) :
           queue[i][2] = p => queue[i][1] <= 2 * iter[p]
      /\ (lastStep.kind # "none" /\ lastStep.proc = p)
           => lastStep.time <= 2 * n
      /\ mainpc = "done" => Terminal(p)
\* the run is over and the last process, delayed by congestion at every
\* waypoint, ended at time 2n exactly
C18_Witness ==
  /\ mainpc = "done"
  /\ \A p \in Procs : Registered(p) => Terminal(p)
  /\ congested > 0
  /\ lastStep.time = 2 * Len(route[lastStep.proc[1]])

\* C19: once every process of a vehicle with a non-empty route is
\* terminal, the vehicle's position is route[-1].
C19_EndsAtLastWaypoint ==
  \A v \in Vehicles :
    (Built(v) /\ \A r \in Registrations : Terminal(<<v, r>>))
    => position[v] = Last(route[v])
\* the processes of a vehicle that did move are terminal, one of them halted
C19_Witness ==
  \E v \in Vehicles :
    /\ Built(v)
    /\ \A r \in Registrations : Terminal(<<v, r>>)
    /\ \E r \in Registrations : pc[<<v, r>>] = "halted"
    /\ start[v] # Last(route[v])
    /\ position[v] = Last(route[v])

\* C20: the contingency signal is emitted at most once for a vehicle.
C20_AtMostOneSignal ==
  \A v \in Vehicles : signals[v] <= 1
=============================================================================
